---- MODULE Spec2Model ----
(***************************************************************************)
(* Client layer of the real-time analytics dashboard: session storage      *)
(* (auth.js, adminAuth.js), the fetch wrappers, the route guards           *)
(* (router.jsx), the URL configuration (api.js) and the push subscriptions *)
(* of the views.                                                           *)
(*                                                                         *)
(* JavaScript runs one callback at a time; an async function is a process  *)
(* whose steps are the code between two awaits.  Each action below is one  *)
(* such step.  A response of the backend is an input of the step that      *)
(* handles it.                                                             *)
(***************************************************************************)
EXTENDS Integers, Sequences, FiniteSets, TLC

VARIABLES
  storage,     \* localStorage: key -> string, Null when the key is absent
  userCall,    \* the login / signup / logout call (auth.js), its request in flight
  adminCall,   \* the adminLogin / adminSignup / adminLogout call (adminAuth.js)
  guard,       \* ProtectedRoute and AdminProtectedRoute, by namespace
  location,    \* the router's current path
  env,         \* import.meta.env
  urls,        \* the last results of the URL resolvers
  sent,        \* the last request authorizedFetch handed to fetch
  sub,         \* per view: the socket subscriptions its effect has created
  handled,     \* the last push handler that ran
  dash,        \* the Dashboard's view state and its requests in flight
  quest,       \* the Questions view's state
  app          \* the App view's state

authVars == <<storage, userCall, adminCall, guard, location>>
urlVars  == <<env, urls, sent>>
viewVars == <<sub, handled, dash, quest, app>>
vars     == <<storage, userCall, adminCall, guard, location,
              env, urls, sent, sub, handled, dash, quest, app>>

----------------------------------------------------------------------------
(* Values *)

Null == "null"                      \* JavaScript null / undefined / absent key

\* Token strings the backend issues, and user objects it returns
Tokens == {"t1", "t2"}
Users  == {"u1", "u2"}

\* auth.js:7-8 and adminAuth.js (main.jsx:17-18)
TOKEN_KEY       == "auth_token"
USER_KEY        == "auth_user"
ADMIN_TOKEN_KEY == "admin_auth_token"
ADMIN_USER_KEY  == "admin_auth_user"
Keys == {TOKEN_KEY, USER_KEY, ADMIN_TOKEN_KEY, ADMIN_USER_KEY}

\* JSON.stringify / JSON.parse of a user object {id: ...}
JSON_stringify(u) ==
  CASE u = "u1" -> "{\"id\":1}"
    [] u = "u2" -> "{\"id\":2}"

JSON_parse(raw) == CHOOSE u \in Users : JSON_stringify(u) = raw

----------------------------------------------------------------------------
(* Storage helpers: auth.js:10-64, main.jsx:20-78 *)

\* getItem(KEY) || null
getToken(st) == st[TOKEN_KEY]
getAdminToken(st) == st[ADMIN_TOKEN_KEY]

setTokenBoth(st, token) ==
  [st EXCEPT ![TOKEN_KEY] = token, ![ADMIN_TOKEN_KEY] = token]
setToken(st, token) ==
  [st EXCEPT ![TOKEN_KEY] = token]   \* token = Null: removeItem

setAdminToken(st, token) ==
  [st EXCEPT ![ADMIN_TOKEN_KEY] = token]

clearAuthTokenOnly(st) ==
  [st EXCEPT ![TOKEN_KEY] = Null]
clearAuth(st) ==
  [st EXCEPT ![TOKEN_KEY] = Null, ![USER_KEY] = Null]

clearAdminAuth(st) ==
  [st EXCEPT ![ADMIN_TOKEN_KEY] = Null, ![ADMIN_USER_KEY] = Null]

getStoredUser(st) ==
  IF st[USER_KEY] # Null THEN JSON_parse(st[USER_KEY]) ELSE Null

getStoredAdminUser(st) ==
  IF st[ADMIN_USER_KEY] # Null THEN JSON_parse(st[ADMIN_USER_KEY]) ELSE Null

setStoredUser(st, user) ==
  [st EXCEPT ![USER_KEY] = IF user # Null THEN JSON_stringify(user) ELSE Null]

setStoredAdminUser(st, user) ==
  [st EXCEPT ![ADMIN_USER_KEY] = IF user # Null THEN JSON_stringify(user) ELSE Null]

----------------------------------------------------------------------------
(* Fetch wrappers: the request each hands to globalThis.fetch.  No caller  *)
(* in the repository passes headers or credentials in its options, so the  *)
(* request is a function of the path and of the storage.                   *)

NoHeader == <<>>
Bearer(token) == <<"Bearer", token>>

\* auth.js:67-122
authFetchOtherKey(st, path) ==
  [by |-> "authFetch", path |-> path,
   authorization |-> IF getAdminToken(st) # Null THEN Bearer(getAdminToken(st)) ELSE NoHeader,
   credentials |-> "include"]
authFetch(st, path) ==
  [by |-> "authFetch", path |-> path,
   authorization |-> IF getToken(st) # Null THEN Bearer(getToken(st)) ELSE NoHeader,
   credentials |-> "include"]

\* main.jsx:81-110
adminAuthFetch(st, path) ==
  [by |-> "adminAuthFetch", path |-> path,
   authorization |-> IF getAdminToken(st) # Null THEN Bearer(getAdminToken(st)) ELSE NoHeader,
   credentials |-> "include"]

\* part_010:171-185, the probe of testBackendConnection: a bare fetch
healthProbe ==
  [by |-> "fetch", path |-> "/api/health", authorization |-> NoHeader,
   credentials |-> "include"]

NoRequest ==
  [by |-> "none", path |-> "", authorization |-> NoHeader, credentials |-> "omit"]

Resps == {"ok", "http", "network"}   \* 2xx, a non-OK status, fetch rejected

----------------------------------------------------------------------------
(* User session calls: auth.js:125-259 *)

\* user: login's local `user` / `me`, the user of the session it created
IdleCall == [op |-> "none", pc |-> "idle", result |-> "none", err |-> "none",
             req |-> NoRequest, user |-> Null]
Call(op, pc, req) ==
  [op |-> op, pc |-> pc, result |-> "none", err |-> "none", req |-> req, user |-> Null]
Settle(c, result, err) ==
  [c EXCEPT !.pc = "idle", !.result = result, !.err = err, !.req = NoRequest]
Await(c, pc, req) == [c EXCEPT !.pc = pc, !.req = req]

\* auth.js:177-214: what login writes once the response is in
loginStoreAlways(st, ok, token, user) ==
  IF ~ok THEN clearAuth(st)
  ELSE LET s1 == IF token # Null THEN setToken(st, token) ELSE st
       IN  IF user # Null THEN setStoredUser(s1, user) ELSE s1
loginStore(st, ok, token, user) ==
  IF ~ok THEN st
  ELSE LET s1 == IF token # Null THEN setToken(st, token) ELSE st
       IN  IF user # Null THEN setStoredUser(s1, user) ELSE s1

\* auth.js:137-153
signupStore(st, ok, token, user) ==
  IF ~ok THEN st
  ELSE LET s1 == IF token # Null THEN setToken(st, token) ELSE st
       IN  IF user # Null THEN setStoredUser(s1, user) ELSE s1

\* auth.js:159-167: login starts with the probe of testBackendConnection
LoginStart ==
  /\ userCall.pc = "idle"
  /\ userCall' = Call("login", "health", healthProbe)
  /\ UNCHANGED <<storage, adminCall, guard, location, urlVars, viewVars>>

\* auth.js:167-175: what login does once testBackendConnection has returned
afterProbeAlways(c, st, ok) ==
  Await(c, "post", authFetch(st, "/api/auth/login"))
afterProbe(c, st, ok) ==
  IF ok THEN Await(c, "post", authFetch(st, "/api/auth/login"))
        ELSE Settle(c, "rejected", "connect")

\* auth.js:167-175
LoginHealth(ok) ==
  /\ userCall.op = "login" /\ userCall.pc = "health"
  /\ userCall' = afterProbe(userCall, storage, ok)
  /\ UNCHANGED <<storage, adminCall, guard, location, urlVars, viewVars>>

\* auth.js:172-229
LoginResponse(resp, token, user) ==
  /\ userCall.op = "login" /\ userCall.pc = "post"
  /\ storage' = loginStore(storage, resp = "ok", token, user)
  /\ userCall' =
       IF resp # "ok" THEN Settle(userCall, "rejected", resp)
       ELSE IF user # Null
         THEN [Settle(userCall, "resolved", "none") EXCEPT !.user = user]
       ELSE Await(userCall, "me", authFetch(storage', "/api/auth/me"))
  /\ UNCHANGED <<adminCall, guard, location, urlVars, viewVars>>

\* auth.js:216-229 with getCurrentUser, auth.js:233-242
LoginMe(resp, me) ==
  /\ userCall.op = "login" /\ userCall.pc = "me"
  /\ storage' = IF resp = "ok" THEN setStoredUser(storage, me) ELSE storage
  /\ userCall' = [Settle(userCall, "resolved", "none")
                   EXCEPT !.user = IF resp = "ok" THEN me ELSE Null]
  /\ UNCHANGED <<adminCall, guard, location, urlVars, viewVars>>

\* auth.js:125-135
SignupStart ==
  /\ userCall.pc = "idle"
  /\ userCall' = Call("signup", "post", authFetch(storage, "/api/auth/signup"))
  /\ UNCHANGED <<storage, adminCall, guard, location, urlVars, viewVars>>

\* auth.js:137-156
SignupResponse(resp, token, user) ==
  /\ userCall.op = "signup" /\ userCall.pc = "post"
  /\ storage' = signupStore(storage, resp = "ok", token, user)
  /\ userCall' = IF resp = "ok" THEN Settle(userCall, "resolved", "none")
                               ELSE Settle(userCall, "rejected", resp)
  /\ UNCHANGED <<adminCall, guard, location, urlVars, viewVars>>

\* auth.js:245-248
LogoutStart ==
  /\ userCall.pc = "idle"
  /\ userCall' = Call("logout", "post", authFetch(storage, "/api/auth/logout"))
  /\ UNCHANGED <<storage, adminCall, guard, location, urlVars, viewVars>>

\* auth.js:249-259: authFetch throws only when fetch rejects; finally clears
LogoutResponse(resp) ==
  /\ userCall.op = "logout" /\ userCall.pc = "post"
  /\ storage' = clearAuth(storage)
  /\ userCall' = Settle(userCall, "resolved",
                        IF resp = "network" THEN "network" ELSE "none")  \* caught, logged
  /\ UNCHANGED <<adminCall, guard, location, urlVars, viewVars>>

----------------------------------------------------------------------------
(* Admin session calls: main.jsx:112-178 (adminAuth.js) *)

\* main.jsx:122-129
adminSignupStore(st, ok, token, user) ==
  IF ~ok THEN st ELSE setStoredAdminUser(setAdminToken(st, token), user)

\* main.jsx:143-152
adminLoginStore(st, ok, token, user) ==
  IF ~ok THEN st
  ELSE LET s1 == setAdminToken(st, token)
       IN  IF user # Null THEN setStoredAdminUser(s1, user) ELSE s1

\* main.jsx:113-121
AdminSignupStart ==
  /\ adminCall.pc = "idle"
  /\ adminCall' = Call("adminSignup", "post", adminAuthFetch(storage, "/api/admin/auth/signup"))
  /\ UNCHANGED <<storage, userCall, guard, location, urlVars, viewVars>>

\* main.jsx:122-131
AdminSignupResponse(resp, token, user) ==
  /\ adminCall.op = "adminSignup" /\ adminCall.pc = "post"
  /\ storage' = adminSignupStore(storage, resp = "ok", token, user)
  /\ adminCall' = IF resp = "ok" THEN Settle(adminCall, "resolved", "none")
                                 ELSE Settle(adminCall, "rejected", resp)
  /\ UNCHANGED <<userCall, guard, location, urlVars, viewVars>>

\* main.jsx:134-142
AdminLoginStart ==
  /\ adminCall.pc = "idle"
  /\ adminCall' = Call("adminLogin", "post", adminAuthFetch(storage, "/api/admin/auth/login"))
  /\ UNCHANGED <<storage, userCall, guard, location, urlVars, viewVars>>

\* main.jsx:143-161
AdminLoginResponse(resp, token, user) ==
  /\ adminCall.op = "adminLogin" /\ adminCall.pc = "post"
  /\ storage' = adminLoginStore(storage, resp = "ok", token, user)
  /\ adminCall' =
       IF resp # "ok" THEN Settle(adminCall, "rejected", resp)
       ELSE IF user # Null THEN Settle(adminCall, "resolved", "none")
       ELSE Await(adminCall, "me", adminAuthFetch(storage', "/api/admin/auth/me"))
  /\ UNCHANGED <<userCall, guard, location, urlVars, viewVars>>

\* main.jsx:153-160 with getCurrentAdmin, main.jsx:164-172
AdminLoginMe(resp, me) ==
  /\ adminCall.op = "adminLogin" /\ adminCall.pc = "me"
  /\ storage' = IF resp = "ok" THEN setStoredAdminUser(storage, me) ELSE storage
  /\ adminCall' = Settle(adminCall, "resolved", "none")
  /\ UNCHANGED <<userCall, guard, location, urlVars, viewVars>>

\* main.jsx:175-178: no await, the call settles in one step
AdminLogout ==
  /\ adminCall.pc = "idle"
  /\ storage' = clearAdminAuth(storage)
  /\ adminCall' = Settle(Call("adminLogout", "idle", NoRequest), "resolved", "none")
  /\ UNCHANGED <<userCall, guard, location, urlVars, viewVars>>

----------------------------------------------------------------------------
(* Route guards: part_008:265-325 (ProtectedRoute) and part_008:348-405    *)
(* (AdminProtectedRoute).  The two differ only in the helpers they call.   *)

Namespaces == {"user", "admin"}

NoGuard == [mounted |-> FALSE, status |-> "none", pc |-> "idle", active |-> FALSE,
            me |-> "none", bg |-> "none", req |-> NoRequest]

\* part_008:267, 350
guardToken(ns, st) == IF ns = "user" THEN getToken(st) ELSE getAdminToken(st)
\* part_008:281, 362
guardCachedAny(ns, st) == "u1"
guardCached(ns, st) == IF ns = "user" THEN getStoredUser(st) ELSE getStoredAdminUser(st)
\* part_008:286/292, 367/373
guardSetUser(ns, st, u) ==
  IF ns = "user" THEN setStoredUser(st, u) ELSE setStoredAdminUser(st, u)
\* part_008:298, 378
guardClear(ns, st) == IF ns = "user" THEN clearAuth(st) ELSE clearAdminAuth(st)
\* getCurrentUser (auth.js:233-234), getCurrentAdmin (main.jsx:164-166)
guardMeRequest(ns, st) ==
  IF ns = "user" THEN authFetch(st, "/api/auth/me")
                 ELSE adminAuthFetch(st, "/api/admin/auth/me")
\* part_008:312, 392: the target of <Navigate>
guardLogin(ns) == IF ns = "user" THEN "/login" ELSE "/admin/login"
\* part_008:419-445: the guarded routes
guardHome(ns) == IF ns = "user" THEN "/" ELSE "/admin"

\* part_008:266-270 and 311-313: the state initialiser and the first render
initialStatusOk(ns, st) == "checking"
initialStatus(ns, st) == IF guardToken(ns, st) = Null THEN "no-token" ELSE "checking"

\* A route element mounts; the router (part_008:412-451) shows one route at
\* a time.  An instance whose requests are still in flight is not replaced
\* by a new one before they settle.
GuardMount(ns) ==
  /\ \A other \in Namespaces : ~guard[other].mounted
  /\ guard[ns].me # "pending" /\ guard[ns].bg # "pending"
  /\ LET s == initialStatus(ns, storage)
     IN  /\ guard' = [guard EXCEPT ![ns] =
                        [mounted |-> TRUE, status |-> s, pc |-> "effect",
                         active |-> FALSE, me |-> "none", bg |-> "none",
                         req |-> NoRequest]]
         /\ location' = IF s = "no-token" THEN guardLogin(ns) ELSE guardHome(ns)
  /\ UNCHANGED <<storage, userCall, adminCall, urlVars, viewVars>>

\* part_008:273-290 (356-371): the effect's synchronous part
GuardEffect(ns) ==
  /\ guard[ns].mounted /\ guard[ns].pc = "effect"
  /\ guard' =
       IF guard[ns].status # "checking"
         THEN [guard EXCEPT ![ns].pc = "idle"]
       ELSE IF guardCached(ns, storage) # Null
         THEN [guard EXCEPT ![ns].pc = "idle", ![ns].status = "ok",
                            ![ns].bg = "pending",
                            ![ns].req = guardMeRequest(ns, storage)]
         ELSE [guard EXCEPT ![ns].pc = "awaitMe", ![ns].active = TRUE,
                            ![ns].me = "pending",
                            ![ns].req = guardMeRequest(ns, storage)]
  /\ UNCHANGED <<storage, userCall, adminCall, location, urlVars, viewVars>>

\* part_008:290-303 (371-383): the awaited /me settles
GuardMe(ns, resp, me) ==
  /\ guard[ns].pc = "awaitMe"
  /\ IF resp = "ok"
       THEN /\ storage' = IF guard[ns].active THEN guardSetUser(ns, storage, me)
                                              ELSE storage
            /\ guard' = [guard EXCEPT ![ns].pc = "idle", ![ns].me = "ok",
                           ![ns].req = NoRequest,
                           ![ns].status = IF guard[ns].active THEN "ok" ELSE @]
            /\ UNCHANGED location
       ELSE /\ storage' = guardClear(ns, storage)
            /\ guard' = [guard EXCEPT ![ns].pc = "idle", ![ns].me = "failed",
                           ![ns].req = NoRequest,
                           ![ns].status = IF guard[ns].active THEN "no-token" ELSE @]
            /\ location' = IF guard[ns].active THEN guardLogin(ns) ELSE location
  /\ UNCHANGED <<userCall, adminCall, urlVars, viewVars>>

\* part_008:285-287 (366-368): the background refresh settles
GuardBackground(ns, resp, me) ==
  /\ guard[ns].bg = "pending"
  /\ storage' = IF resp = "ok" THEN guardSetUser(ns, storage, me) ELSE storage
  /\ guard' = [guard EXCEPT ![ns].bg = IF resp = "ok" THEN "ok" ELSE "failed",
                             ![ns].req = NoRequest]
  /\ UNCHANGED <<userCall, adminCall, location, urlVars, viewVars>>

\* part_008:306-308 (386-388): the effect's cleanup when the element unmounts
GuardUnmount(ns) ==
  /\ guard[ns].mounted /\ guard[ns].pc # "effect"
  /\ guard' = [guard EXCEPT ![ns].mounted = FALSE, ![ns].active = FALSE]
  /\ UNCHANGED <<storage, userCall, adminCall, location, urlVars, viewVars>>

----------------------------------------------------------------------------
(* URL configuration.  A string is a sequence of characters; a URL is      *)
(* written as one chunk, which is all the resolvers look at: whether the   *)
(* value is undefined, empty or blank.                                     *)

Undefined == <<"<undefined>">>           \* the variable is not in import.meta.env
EmptyStr  == <<>>
Blank     == <<" ">>
BackendUrl == <<"https://api.example.com">>
LegacyUrl  == <<"https://legacy.example.com">>
SocketUrl  == <<"https://ws.example.com">>
Origin     == <<"https://app.example.com">>   \* window.location.origin
\* part_010:43
productionBackendUrl == <<"https://kavia-alb-fa100ecf-1245176832.backend.kavia.app">>

\* String.prototype.trim
RECURSIVE trimStart(_)
trimStart(str) ==
  IF str # <<>> /\ Head(str) = " " THEN trimStart(Tail(str)) ELSE str
RECURSIVE trimEnd(_)
trimEnd(str) ==
  IF str # <<>> /\ str[Len(str)] = " " THEN trimEnd(SubSeq(str, 1, Len(str) - 1)) ELSE str
trim(str) == trimEnd(trimStart(str))

\* a ?? b   and   a || b   on strings
Coalesce(a, b) == IF a # Undefined THEN a ELSE b
Truthy(a) == a # Undefined /\ a # EmptyStr
OrElse(a, b) == IF Truthy(a) THEN a ELSE b

\* api.js:1 and api.js:3-6
defaultBase == EmptyStr
defaultSocket == Origin

\* api.js:13-17
getApiBaseUrl(e) ==
  LET base == Coalesce(e.VITE_API_BASE_URL, defaultBase)
  IN  OrElse(base, defaultBase)

\* part_009:200-217
getApiBaseUrl_part009(e) ==
  LET base == Coalesce(e.VITE_BACKEND_URL, Coalesce(e.VITE_API_BASE_URL, EmptyStr))
  IN  OrElse(base, EmptyStr)

\* part_010:21-51
getApiBaseUrl_part010(e) ==
  LET backendUrl == OrElse(e.VITE_BACKEND_URL, e.VITE_API_BASE_URL)
  IN  IF Truthy(backendUrl) THEN backendUrl
      ELSE IF e.PROD THEN productionBackendUrl
      ELSE EmptyStr

\* api.js:24-28
getSocketUrl(e) ==
  LET base == Coalesce(e.VITE_SOCKET_URL, defaultSocket)
  IN  OrElse(base, defaultSocket)

\* part_009:254-263
getSocketUrl_part009(e) ==
  LET socket == e.VITE_SOCKET_URL
      backend == Coalesce(e.VITE_BACKEND_URL, Coalesce(e.VITE_API_BASE_URL, EmptyStr))
  IN  IF Truthy(socket) /\ trim(socket) # EmptyStr THEN socket
      ELSE IF Truthy(backend) /\ trim(backend) # EmptyStr THEN backend
      ELSE defaultSocket

Unresolved == <<"<unresolved>">>
NoUrls == [api |-> Unresolved, api009 |-> Unresolved, api010 |-> Unresolved,
           socket |-> Unresolved, socket009 |-> Unresolved]

\* The build's environment: each variable absent, empty, blank or a URL
Envs ==
  [VITE_BACKEND_URL  : {Undefined, EmptyStr, Blank, BackendUrl},
   VITE_API_BASE_URL : {Undefined, EmptyStr, LegacyUrl},
   VITE_SOCKET_URL   : {Undefined, EmptyStr, Blank, SocketUrl},
   PROD : BOOLEAN]

DefaultEnv == [VITE_BACKEND_URL |-> Undefined, VITE_API_BASE_URL |-> Undefined,
               VITE_SOCKET_URL |-> Undefined, PROD |-> FALSE]

ResolveApi ==
  /\ urls' = [urls EXCEPT !.api = getApiBaseUrl(env),
                          !.api009 = getApiBaseUrl_part009(env),
                          !.api010 = getApiBaseUrl_part010(env)]
  /\ UNCHANGED <<env, sent, authVars, viewVars>>

ResolveSocket ==
  /\ urls' = [urls EXCEPT !.socket = getSocketUrl(env),
                          !.socket009 = getSocketUrl_part009(env)]
  /\ UNCHANGED <<env, sent, authVars, viewVars>>

----------------------------------------------------------------------------
(* authorizedFetch: api.js:35-82 (part_009:271-319 is the same code but    *)
(* for the default credentials mode).  A URL is the sequence of its pieces, *)
(* every delimiter (":", "/") a piece of its own, so that startsWith,       *)
(* indexOf and slice work on it as they do on the string.                   *)

\* String.prototype.startsWith, String.prototype.indexOf (-1: not found)
startsWith(str, prefix) ==
  Len(str) >= Len(prefix) /\ SubSeq(str, 1, Len(prefix)) = prefix
indexOf(str, part) ==
  LET at == {i \in 0..(Len(str) - Len(part)) : SubSeq(str, i + 1, i + Len(part)) = part}
  IN  IF at = {} THEN -1 ELSE CHOOSE i \in at : \A j \in at : i <= j

\* the URLs handed to authorizedFetch: `${base}/api/...` (api.js:91-159) on a
\* base that is empty, absolute or scheme-relative, and relative URLs
\* without the leading slash (api.js:58-59)
Urls ==
  LET Bases == { <<>>,
                 <<"http", ":", "/", "/", "host">>,
                 <<"https", ":", "/", "/", "host", ":", "3001">>,
                 <<"HTTPS", ":", "/", "/", "host">>,
                 <<"/", "/", "host">> }
      Paths == { <<>>,
                 <<"/", "api", "/", "admin">>,
                 <<"/", "api", "/", "admin", "/", "questions">>,
                 <<"/", "api", "/", "events">>,
                 <<"/", "api", "/", "questions">> }
  IN  ({b \o q : b \in Bases, q \in Paths} \ {<<>>})
        \cup {<<"api", "/", "admin", "/", "questions">>, <<"api", "/", "events">>}

\* api.js:40-60: the pathname the wrapper decides on
pathnameOf(url) ==
  IF startsWith(url, <<"http", ":", "/", "/">>) \/ startsWith(url, <<"https", ":", "/", "/">>)
    THEN LET idxProto == indexOf(url, <<":", "/", "/">>)
             afterProto == SubSeq(url, idxProto + 3 + 1, Len(url))
             slashIdx == indexOf(afterProto, <<"/">>)
         IN  IF idxProto = -1 THEN <<>>
             ELSE IF slashIdx # -1 THEN SubSeq(afterProto, slashIdx + 1, Len(afterProto))
             ELSE <<"/">>
    ELSE IF startsWith(url, <<"/">>) THEN url ELSE <<"/">> \o url

\* api.js:36-81: the request handed to globalThis.fetch
authorizedFetch(st, url) ==
  [by |-> "authorizedFetch", url |-> url,
   authorization |->
     IF startsWith(pathnameOf(url), <<"/", "api", "/", "admin">>)
       THEN IF getAdminToken(st) # Null THEN Bearer(getAdminToken(st)) ELSE NoHeader
       ELSE IF getToken(st) # Null THEN Bearer(getToken(st)) ELSE NoHeader,
   credentials |-> "include"]

NoSent == [by |-> "none", url |-> <<>>, authorization |-> NoHeader, credentials |-> "omit"]

\* api.js:35-82, called with the storage as it is
AuthorizedFetch(url) ==
  /\ sent' = authorizedFetch(storage, url)
  /\ UNCHANGED <<env, urls, authVars, viewVars>>

----------------------------------------------------------------------------
(* Push subscriptions of the views: part_008:49-88 (App),                  *)
(* Questions.jsx:57-110, Dashboard.jsx:171-241.  The router shows one view *)
(* at a time.  A subscription is the socket one run of the effect creates, *)
(* with the listeners it registers and the activeWindow its closure holds. *)
(* A view keeps its current socket and the one it tore down last; the      *)
(* backend may emit on either.                                             *)

MaxRefresh == 2      \* Dashboard refreshes in flight
MaxAu == 3           \* fetchActiveUsers calls in flight
MaxLoads == 2        \* loadAll calls in flight
MaxCount == 3        \* answers counted per option
MaxPushes == 3       \* new_event pushes the App receives per mount

Views == {"App", "Questions", "Dashboard"}
PushEvents == {"new_answer", "metrics_update", "new_event", "user_event_created"}
Windows == {"10m", "30m", "1h"}      \* Dashboard.jsx:55, 643
Ranges == {"7d", "14d", "30d"}       \* Dashboard.jsx:52
DataVersions == {1, 2}               \* what the backend's data can be

\* part_008:63, Questions.jsx:68 and 85, Dashboard.jsx:218-220
ListenersOf(v) ==
  CASE v = "App"       -> {"new_event"}
    [] v = "Questions" -> {"new_answer", "metrics_update"}
    [] v = "Dashboard" -> {"metrics_update", "user_event_created", "new_event"}

\* io(...) and the s.on(...) calls of one run of the effect
newSocket(v, win) == [connected |-> TRUE, listeners |-> ListenersOf(v), win |-> win]
NoSocket == [connected |-> FALSE, listeners |-> {}, win |-> "10m"]

\* part_008:76-83, Questions.jsx:97-104, Dashboard.jsx:227-234
cleanupKeep(s) == s
cleanup(s) == [s EXCEPT !.connected = FALSE, !.listeners = {}]

\* Dashboard.jsx:184-191: what one refresh requests
refreshRequests ==
  {"total", "types", "active", "recent", "usersToday", "heatmap"}

\* Dashboard.jsx:82-89: what loadAll requests
loadRequests ==
  {"total", "types", "signups", "recent", "usersToday", "heatmap"}

Metrics == {"total", "types", "signups", "active", "recent", "usersToday", "heatmap"}

\* Dashboard.jsx:192-211: the fulfilled results replace what is shown
refreshApplyFew(shown, ok, value) ==
  [m \in Metrics |-> IF m \in ok \ {"heatmap"} THEN value ELSE shown[m]]
refreshApply(shown, ok, value) ==
  [m \in Metrics |-> IF m \in ok THEN value ELSE shown[m]]

\* Dashboard.jsx:92-135: loadAll's setters, one per fulfilled result
loadApplyAll(shown, ok, value) ==
  [m \in Metrics |-> IF m \in loadRequests THEN (IF m \in ok THEN value ELSE 0)
                                            ELSE shown[m]]
loadApply(shown, ok, value) ==
  [m \in Metrics |-> IF m \in ok THEN value ELSE shown[m]]
\* Dashboard.jsx:90-138: errs, one key per rejected request
loadErrors(ok) == loadRequests \ ok

NoSub == [mounted |-> FALSE, cur |-> NoSocket, old |-> NoSocket]
NoHandled == [view |-> "none", sock |-> "none", event |-> "none", n |-> 0]
NoApplied == [ok |-> {}, value |-> 0]
NoAu == [w \in Windows |-> 0]
\* Dashboard.jsx:47-62: the initial view state.  activeOf is the window the
\* displayed active-users series was requested for.
NewDash == [activeWindow |-> "10m", signupsRange |-> "14d",
            shown |-> [m \in Metrics |-> 0], activeOf |-> "none",
            refreshes |-> <<>>, applied |-> NoApplied,
            au |-> NoAu, loads |-> <<>>,
            loading |-> TRUE, errors |-> {}]   \* Dashboard.jsx:47-48

Remove(seq, k) == SubSeq(seq, 1, k - 1) \o SubSeq(seq, k + 1, Len(seq))

AuInFlight(d) == d.au["10m"] + d.au["30m"] + d.au["1h"]

\* Dashboard.jsx:144-155: fetchActiveUsers(win) sends its request
fetchActiveUsers(d, win) == [d EXCEPT !.au[win] = @ + 1]

\* Dashboard.jsx:79-89: loadAll sends its requests
loadAll(d) == [d EXCEPT !.loads = Append(@, d.signupsRange), !.loading = TRUE]

----------------------------------------------------------------------------
(* The Questions view, Questions.jsx:17-159, on one question with          *)
(* NOptions options.  Option indexes are 1-based here, 0-based in the      *)
(* code.  counts is counts[qid]: <<>> while undefined.  answer, expected,  *)
(* local and echoed follow the answer the user submitted: expected is the  *)
(* counts that were displayed at the submission with the chosen option's   *)
(* count one higher, local says the optimistic update ran, echoed that the *)
(* backend's new_answer push for this answer was handled.                  *)

NOptions == 2
Zeros(len) == [i \in 1..len |-> 0]

NewQuest == [load |-> "none", loaded |-> FALSE, counts |-> <<>>,
             selected |-> 0, submit |-> "idle", submitted |-> FALSE,
             answer |-> 0, expected |-> <<>>, local |-> FALSE, echoed |-> FALSE]

\* Questions.jsx:71-81 and 148-155: the updater both paths give setCounts
addAnswer(counts, loaded, idx) ==
  LET len == IF counts # <<>> THEN Len(counts)
             ELSE IF loaded THEN NOptions ELSE 0
  IN  IF len <= 0 THEN counts
      ELSE LET next == IF counts # <<>> THEN counts ELSE Zeros(len)
           IN  IF idx >= 1 /\ idx <= len
                 THEN [next EXCEPT ![idx] = @ + 1] ELSE next

\* Payloads of new_answer: an answer of this user (its echo) or of another
\* user, or a payload without question_id
AnswerPayloads ==
  [question_id : {"q1", ""}, selectedOptionIndex : 1..NOptions, own : BOOLEAN]
\* Payloads of metrics_update: question counts, or another message type
MetricsPayloads ==
  [type : {"question_counts", "other"}, counts : {<<1, 1>>}]
\* Events the backend pushes to the App, by timestamp
PushedEvents == {20, 21}
NoPayload == 0

PushPayloads(v, e) ==
  IF v = "Questions" /\ e = "new_answer" THEN AnswerPayloads
  ELSE IF v = "Questions" /\ e = "metrics_update" THEN MetricsPayloads
  ELSE IF v = "App" /\ e = "new_event" THEN PushedEvents
  ELSE {NoPayload}

\* Questions.jsx:68-82: the new_answer handler
onNewAnswer(q, p) ==
  IF p.question_id = "" THEN q
  ELSE LET tracked == q.answer # 0 /\ ~p.own
           c == addAnswer(q.counts, q.loaded, p.selectedOptionIndex)
       IN  [q EXCEPT !.counts = c,
                     !.echoed = IF p.own THEN TRUE ELSE @,
                     !.expected = IF tracked /\ c # q.counts
                                    THEN [@ EXCEPT ![p.selectedOptionIndex] = @ + 1]
                                    ELSE @]

\* Questions.jsx:85-90: the metrics_update handler.  Counts the backend
\* sends replace the displayed ones; the submitted answer is no longer
\* followed.
onMetricsUpdate(q, p) ==
  IF p.type = "question_counts"
    THEN [q EXCEPT !.counts = p.counts, !.answer = 0, !.expected = <<>>,
                   !.local = FALSE, !.echoed = FALSE]
    ELSE q

\* What the backend can push to the Questions view: the echo of an answer
\* only once that answer was sent, and only once
QuestionsCanPush(q, e, p) ==
  /\ e = "new_answer" =>
       /\ p.own => (p.question_id = "q1" /\ q.answer = p.selectedOptionIndex
                    /\ ~q.echoed)
       /\ q.counts # <<>> => q.counts[p.selectedOptionIndex] < MaxCount
  /\ e = "metrics_update" => TRUE

----------------------------------------------------------------------------
(* The App view, part_008:18-88.  An event is its timestamp.  pushes and   *)
(* loaded count the new_event pushes handled since the mount and the       *)
(* events the initial load kept.                                           *)

ListCap == 10        \* part_008:33 and 67: slice(0, 10)

NewApp == [events |-> <<>>, total |-> 0, load |-> "none", pushes |-> 0, loaded |-> 0]

\* What GET /api/events may answer
InitialLists == {<<>>, <<3, 1, 2>>, <<5, 12, 1, 9, 3, 11, 7, 2, 10, 4, 8, 6>>,
                 <<5, 1, 9, 3, 7, 2, 10, 4, 8, 6>>}

\* Array.prototype.slice(0, n)
slice(seq, n) == SubSeq(seq, 1, IF Len(seq) < n THEN Len(seq) ELSE n)

\* part_008:30-32: [...initial].sort(newest first)
RECURSIVE insertSorted(_, _)
insertSorted(x, sorted) ==
  IF sorted = <<>> THEN <<x>>
  ELSE IF x > Head(sorted) THEN <<x>> \o sorted
  ELSE <<Head(sorted)>> \o insertSorted(x, Tail(sorted))
RECURSIVE sortNewestFirst(_)
sortNewestFirst(seq) ==
  IF seq = <<>> THEN <<>>
  ELSE insertSorted(seq[Len(seq)], sortNewestFirst(SubSeq(seq, 1, Len(seq) - 1)))

\* part_008:65-68: prepend the newest, cap the list
prependAppend(evt, prev) == slice(prev \o <<evt>>, ListCap)
prepend(evt, prev) == slice(<<evt>> \o prev, ListCap)

\* part_008:63-70: the new_event handler
onNewEvent(a, evt) ==
  [a EXCEPT !.events = prepend(evt, @), !.total = @ + 1, !.pushes = @ + 1]

----------------------------------------------------------------------------
(* Mounting, unmounting and the pushes *)

\* A view mounts and its effects run for the first time: part_008:24-62,
\* Questions.jsx:29-66, Dashboard.jsx:157-179
ViewMount(v) ==
  /\ \A u \in Views : ~sub[u].mounted
  /\ sub' = [sub EXCEPT ![v].mounted = TRUE, ![v].cur = newSocket(v, "10m")]
  /\ dash' = IF v = "Dashboard"
               THEN fetchActiveUsers(fetchActiveUsers(loadAll(NewDash), "10m"),
                                     NewDash.activeWindow)
               ELSE dash
  /\ quest' = IF v = "Questions" THEN [NewQuest EXCEPT !.load = "pending"] ELSE quest
  /\ app' = IF v = "App" THEN [NewApp EXCEPT !.load = "pending"] ELSE app
  /\ UNCHANGED <<handled, authVars, urlVars>>

\* The view unmounts: the effects' cleanups run.  React discards the state
\* of an unmounted component and drops the updates of its requests in flight.
ViewUnmount(v) ==
  /\ sub[v].mounted
  /\ sub' = [sub EXCEPT ![v].mounted = FALSE, ![v].cur = NoSocket,
                        ![v].old = cleanup(sub[v].cur)]
  /\ dash' = IF v = "Dashboard" THEN NewDash ELSE dash
  /\ quest' = IF v = "Questions" THEN NewQuest ELSE quest
  /\ app' = IF v = "App" THEN NewApp ELSE app
  /\ UNCHANGED <<handled, authVars, urlVars>>

\* Questions.jsx:57-110: the questions changed, the socket effect re-runs
QuestionsRerun ==
  sub' = [sub EXCEPT !["Questions"].old = cleanup(sub["Questions"].cur),
                     !["Questions"].cur = newSocket("Questions", "10m")]

\* Questions.jsx:29-56: GET /api/questions settles.  init is the
\* optionCounts the backend embeds, <<>> when it embeds none.
QuestionsLoaded(resp, init) ==
  /\ sub["Questions"].mounted /\ quest.load = "pending"
  /\ IF resp = "ok"
       THEN /\ quest' = [quest EXCEPT !.load = "done", !.loaded = TRUE,
                           !.counts = IF @ # <<>> THEN @ ELSE init]
            /\ QuestionsRerun
       ELSE /\ quest' = [quest EXCEPT !.load = "failed"]
            /\ UNCHANGED sub
  /\ UNCHANGED <<dash, app, handled, authVars, urlVars>>

\* Questions.jsx:236-250: the user picks an option
QuestionsSelect(idx) ==
  /\ sub["Questions"].mounted /\ quest.loaded /\ ~quest.submitted
  /\ quest.submit = "idle"
  /\ quest.selected # idx
  /\ quest' = [quest EXCEPT !.selected = idx]
  /\ UNCHANGED <<sub, dash, app, handled, authVars, urlVars>>

\* Questions.jsx:137-141 and 339: the submit button, POST /api/answers
QuestionsSubmit ==
  /\ sub["Questions"].mounted /\ quest.loaded
  /\ quest.selected # 0 /\ quest.submit = "idle" /\ ~quest.submitted
  /\ quest.counts # <<>> => quest.counts[quest.selected] < MaxCount
  /\ quest' = [quest EXCEPT
       !.submit = "pending", !.answer = quest.selected,
       !.expected = addAnswer(quest.counts, TRUE, quest.selected),
       !.local = FALSE, !.echoed = FALSE]
  /\ UNCHANGED <<sub, dash, app, handled, authVars, urlVars>>

\* Questions.jsx:142-158: the POST settles.  An answer whose echo was
\* pushed has been accepted.
QuestionsSubmitted(resp) ==
  /\ sub["Questions"].mounted /\ quest.submit = "pending"
  /\ quest.echoed => resp = "ok"
  /\ quest' =
       IF resp = "ok"
         THEN [quest EXCEPT !.submit = "idle", !.submitted = TRUE,
                 !.local = IF quest.answer # 0 THEN TRUE ELSE @,
                 !.counts = addAnswer(@, quest.loaded, quest.selected)]
         ELSE [quest EXCEPT !.submit = "idle", !.answer = 0, !.expected = <<>>]
  /\ UNCHANGED <<sub, dash, app, handled, authVars, urlVars>>

\* part_008:24-46: GET /api/events settles
AppLoaded(resp, initial) ==
  /\ sub["App"].mounted /\ app.load = "pending"
  /\ app' = IF resp = "ok"
              THEN LET capped == slice(sortNewestFirst(initial), ListCap)
                   IN  [app EXCEPT !.load = "done", !.events = capped,
                                   !.total = Len(capped), !.loaded = Len(capped)]
              ELSE [app EXCEPT !.load = "failed"]
  /\ UNCHANGED <<sub, dash, quest, handled, authVars, urlVars>>

\* Dashboard.jsx:645, 163-168 and 171-241: a window is selected; the
\* active-users effect and the socket effect re-run
SelectWindow(w) ==
  /\ sub["Dashboard"].mounted
  /\ w # dash.activeWindow
  /\ AuInFlight(dash) < MaxAu
  /\ dash' = fetchActiveUsers([dash EXCEPT !.activeWindow = w], w)
  /\ sub' = [sub EXCEPT !["Dashboard"].old = cleanup(sub["Dashboard"].cur),
                        !["Dashboard"].cur = newSocket("Dashboard", w)]
  /\ UNCHANGED <<quest, app, handled, authVars, urlVars>>

\* Dashboard.jsx:522 and 157-162: a signups range is selected; the load
\* effect re-runs
SelectRange(r) ==
  /\ sub["Dashboard"].mounted
  /\ r # dash.signupsRange
  /\ AuInFlight(dash) < MaxAu /\ Len(dash.loads) < MaxLoads
  /\ dash' = fetchActiveUsers(loadAll([dash EXCEPT !.signupsRange = r]), "10m")
  /\ UNCHANGED <<sub, quest, app, handled, authVars, urlVars>>

\* The backend emits event e with payload p on a socket of view v: the
\* listener, if the socket still has one, runs.  Dashboard.jsx:181-191
\* starts a refresh.
Push(v, which, e, p) ==
  /\ LET s == IF which = "cur" THEN sub[v].cur ELSE sub[v].old
     IN  IF s.connected /\ e \in s.listeners
           THEN /\ handled' = [view |-> v, sock |-> which, event |-> e,
                               n |-> 1 - handled.n]
                /\ IF v = "Dashboard"
                     THEN /\ Len(dash.refreshes) < MaxRefresh
                          /\ dash' = [dash EXCEPT !.refreshes =
                                Append(@, [win |-> s.win, requests |-> refreshRequests])]
                     ELSE UNCHANGED dash
                /\ IF v = "Questions"
                     THEN /\ QuestionsCanPush(quest, e, p)
                          /\ quest' = IF e = "new_answer" THEN onNewAnswer(quest, p)
                                                           ELSE onMetricsUpdate(quest, p)
                     ELSE UNCHANGED quest
                /\ IF v = "App"
                     THEN /\ app.pushes < MaxPushes
                          /\ app' = onNewEvent(app, p)
                     ELSE UNCHANGED app
           ELSE UNCHANGED <<handled, dash, quest, app>>
  /\ UNCHANGED <<sub, authVars, urlVars>>

\* Outcomes of one refresh: all requests fulfilled, one rejected, or all rejected
Outcomes(requests) ==
  {requests, {}} \cup {requests \ {m} : m \in requests}

\* Dashboard.jsx:184-211: Promise.allSettled resolves and the continuation runs
RefreshDone(k, ok, value) ==
  /\ k \in 1..Len(dash.refreshes)
  /\ ok \in Outcomes(dash.refreshes[k].requests)
  /\ dash' = [dash EXCEPT !.shown = refreshApply(@, ok, value),
                          !.applied = [ok |-> ok, value |-> value],
                          !.activeOf = IF "active" \in ok
                                         THEN dash.refreshes[k].win ELSE @,
                          !.refreshes = Remove(@, k)]
  /\ UNCHANGED <<sub, quest, app, handled, authVars, urlVars>>

\* Dashboard.jsx:147-154: the request of one fetchActiveUsers(w) settles
AuDone(w, resp, value) ==
  /\ dash.au[w] > 0
  /\ dash' = [dash EXCEPT !.au[w] = @ - 1,
                          !.shown["active"] = IF resp = "ok" THEN value ELSE @,
                          !.activeOf = IF resp = "ok" THEN w ELSE @]
  /\ UNCHANGED <<sub, quest, app, handled, authVars, urlVars>>

\* Dashboard.jsx:82-141: the requests of one loadAll settle
LoadDone(k, ok, value) ==
  /\ k \in 1..Len(dash.loads)
  /\ ok \subseteq loadRequests
  /\ dash' = [dash EXCEPT !.shown = loadApply(@, ok, value),
                          !.errors = loadErrors(ok),
                          !.loading = FALSE,
                          !.loads = Remove(@, k)]
  /\ UNCHANGED <<sub, quest, app, handled, authVars, urlVars>>

----------------------------------------------------------------------------
(* Specifications *)

NoStorage == [k \in Keys |-> Null]
AuthIdle ==
  /\ storage = NoStorage
  /\ userCall = IdleCall
  /\ adminCall = IdleCall
  /\ guard = [ns \in Namespaces |-> NoGuard]
  /\ location = "/login"
UrlIdle == env = DefaultEnv /\ urls = NoUrls /\ sent = NoSent
ViewIdle == /\ sub = [v \in Views |-> NoSub]
            /\ handled = NoHandled
            /\ dash = NewDash
            /\ quest = NewQuest
            /\ app = NewApp

Payloads == [token : Tokens \cup {Null}, user : Users \cup {Null}]
Profiles == Users \cup {Null}

\* Responses in which the backend issues a token, and profiles it knows
IssuedPayloads == [token : Tokens, user : Users \cup {Null}]

UserCallsWith(payloads, profiles) ==
  \/ LoginStart
  \/ \E ok \in BOOLEAN : LoginHealth(ok)
  \/ \E resp \in Resps, d \in payloads : LoginResponse(resp, d.token, d.user)
  \/ \E resp \in Resps, me \in profiles : LoginMe(resp, me)
  \/ SignupStart
  \/ \E resp \in Resps, d \in payloads : SignupResponse(resp, d.token, d.user)
  \/ LogoutStart
  \/ \E resp \in Resps : LogoutResponse(resp)

UserCalls == UserCallsWith(Payloads, Profiles)

AdminCalls ==
  \/ AdminSignupStart
  \/ \E resp \in Resps, d \in Payloads : AdminSignupResponse(resp, d.token, d.user)
  \/ AdminLoginStart
  \/ \E resp \in Resps, d \in Payloads : AdminLoginResponse(resp, d.token, d.user)
  \/ \E resp \in Resps, me \in Profiles : AdminLoginMe(resp, me)
  \/ AdminLogout

Guard(ns) ==
  \/ GuardMount(ns)
  \/ GuardEffect(ns)
  \/ \E resp \in Resps, me \in Profiles : GuardMe(ns, resp, me)
  \/ \E resp \in Resps, me \in Profiles : GuardBackground(ns, resp, me)
  \/ GuardUnmount(ns)

Init == AuthIdle /\ UrlIdle /\ ViewIdle

\* The user session: the calls of auth.js and ProtectedRoute
Next == UserCalls \/ Guard("user")
Spec == Init /\ [][Next]_vars

\* The user session with a backend whose successful answers always carry a
\* token and whose profiles are never empty
NextIssued ==
  \/ UserCallsWith(IssuedPayloads, Users)
  \/ GuardMount("user")
  \/ GuardEffect("user")
  \/ \E resp \in Resps, me \in Users : GuardMe("user", resp, me)
  \/ \E resp \in Resps, me \in Users : GuardBackground("user", resp, me)
  \/ GuardUnmount("user")
SpecIssued == Init /\ [][NextIssued]_vars

\* The admin session: the calls of adminAuth.js and AdminProtectedRoute
NextAdmin == AdminCalls \/ Guard("admin")
SpecAdmin == Init /\ [][NextAdmin]_vars

\* Both sessions' calls side by side
NextSession == UserCalls \/ AdminCalls
SpecSession == Init /\ [][NextSession]_vars

\* The URL resolvers on every environment
UrlInit == AuthIdle /\ ViewIdle /\ env \in Envs /\ urls = NoUrls /\ sent = NoSent
UrlNext == ResolveApi \/ ResolveSocket
SpecUrl == UrlInit /\ [][UrlNext]_vars

\* The three views, one at a time; every request is fulfilled alike
ViewNext ==
  \/ \E v \in Views : ViewMount(v)
  \/ \E v \in Views : ViewUnmount(v)
  \/ \E resp \in {"ok", "http"} : QuestionsLoaded(resp, <<>>)
  \/ \E idx \in 1..NOptions : QuestionsSelect(idx)
  \/ QuestionsSubmit
  \/ \E resp \in {"ok", "http"} : QuestionsSubmitted(resp)
  \/ \E resp \in {"ok", "http"} : AppLoaded(resp, <<3, 1, 2>>)
  \/ \E w \in {"10m", "30m"} : SelectWindow(w)
  \/ \E v \in Views, which \in {"cur", "old"}, e \in PushEvents :
       \E p \in PushPayloads(v, e) : Push(v, which, e, p)
  \/ \E k \in 1..MaxRefresh : RefreshDone(k, refreshRequests, 1)
  \/ \E w \in Windows : AuDone(w, "ok", 1)
  \/ LoadDone(1, loadRequests, 1)
SpecViews == Init /\ [][ViewNext]_vars

\* The Dashboard's pushes and refreshes with every outcome; its load and
\* its first active-users requests are fulfilled
DashNext ==
  \/ ViewMount("Dashboard")
  \/ ViewUnmount("Dashboard")
  \/ \E which \in {"cur", "old"}, e \in PushEvents : Push("Dashboard", which, e, NoPayload)
  \/ \E k \in 1..MaxRefresh, ok \in Outcomes(refreshRequests), value \in DataVersions :
        RefreshDone(k, ok, value)
  \/ AuDone("10m", "ok", 1)
  \/ LoadDone(1, loadRequests, 1)
SpecDash == Init /\ [][DashNext]_vars

\* The Dashboard's selections, pushes and requests in any order
AuNext ==
  \/ ViewMount("Dashboard")
  \/ ViewUnmount("Dashboard")
  \/ \E w \in {"10m", "30m"} : SelectWindow(w)
  \/ \E r \in {"7d", "14d"} : SelectRange(r)
  \/ Push("Dashboard", "cur", "metrics_update", NoPayload)
  \/ \E k \in 1..MaxRefresh, ok \in {refreshRequests, {}} : RefreshDone(k, ok, 1)
  \/ \E w \in Windows, resp \in {"ok", "http"} : AuDone(w, resp, 1)
  \/ \E k \in 1..MaxLoads : LoadDone(k, loadRequests, 1)
SpecAu == Init /\ [][AuNext]_vars
\* The Dashboard's loads alone: each request of a load fulfilled or rejected
LoadNext ==
  \/ ViewMount("Dashboard")
  \/ ViewUnmount("Dashboard")
  \/ \E r \in {"7d", "14d"} : SelectRange(r)
  \/ AuDone("10m", "ok", 1)
  \/ \E k \in 1..MaxLoads, value \in DataVersions,
        ok \in {loadRequests, {}, loadRequests \ {"total"}, loadRequests \ {"signups", "heatmap"}} :
        LoadDone(k, ok, value)
SpecLoad == Init /\ [][LoadNext]_vars

\* The Questions view
InitialCounts == {<<>>, <<1, 0>>}
QuestionsNext ==
  \/ ViewMount("Questions")
  \/ ViewUnmount("Questions")
  \/ \E resp \in Resps, init \in InitialCounts : QuestionsLoaded(resp, init)
  \/ \E idx \in 1..NOptions : QuestionsSelect(idx)
  \/ QuestionsSubmit
  \/ \E resp \in Resps : QuestionsSubmitted(resp)
  \/ \E which \in {"cur", "old"}, e \in PushEvents :
       \E p \in PushPayloads("Questions", e) : Push("Questions", which, e, p)
SpecQuestions == Init /\ [][QuestionsNext]_vars

\* The App view
AppNext ==
  \/ ViewMount("App")
  \/ ViewUnmount("App")
  \/ \E resp \in Resps, initial \in InitialLists : AppLoaded(resp, initial)
  \/ \E which \in {"cur", "old"}, e \in PushEvents :
       \E p \in PushPayloads("App", e) : Push("App", which, e, p)
SpecApp == Init /\ [][AppNext]_vars

\* What the session calls can leave in storage: per namespace a token or
\* none, a cached user or none
Sessions ==
  {[k \in Keys |-> CASE k = TOKEN_KEY -> t
                     [] k = USER_KEY -> IF u = Null THEN Null ELSE JSON_stringify(u)
                     [] k = ADMIN_TOKEN_KEY -> at
                     [] k = ADMIN_USER_KEY -> IF au = Null THEN Null ELSE JSON_stringify(au)] :
     t \in Tokens \cup {Null}, u \in Users \cup {Null},
     at \in {"t1", Null}, au \in {"u1", Null}}

\* The two guards on a stored session, with their scheduling: an effect that
\* is due runs, and a request in flight settles (the browser resolves or
\* rejects every fetch).  Nothing obliges the router to mount a route.
GuardInit ==
  /\ storage \in Sessions
  /\ userCall = IdleCall /\ adminCall = IdleCall
  /\ guard = [ns \in Namespaces |-> NoGuard]
  /\ location = "/login"
  /\ UrlIdle /\ ViewIdle
GuardNext == Guard("user") \/ Guard("admin")
\* authorizedFetch alone, on every stored session
FetchNext == \E url \in Urls : AuthorizedFetch(url)
SpecFetch == GuardInit /\ [][FetchNext]_vars
SpecGuards ==
  /\ GuardInit /\ [][GuardNext]_vars
  /\ \A ns \in Namespaces :
        /\ WF_vars(GuardEffect(ns))
        /\ WF_vars(\E resp \in Resps, me \in Profiles : GuardMe(ns, resp, me))
        /\ WF_vars(\E resp \in Resps, me \in Profiles : GuardBackground(ns, resp, me))

----------------------------------------------------------------------------
(* Properties *)

\* The header a wrapper must attach, given the token it finds in storage
ExpectedAuthorization(token) == IF token # Null THEN Bearer(token) ELSE NoHeader

\* C1: every request authFetch sends carries "Authorization: Bearer <t>" with
\* t the user token in storage at the time of the call, and every request
\* adminAuthFetch sends carries the stored admin token; when the token is
\* absent the wrapper attaches no Authorization header.
C1_BearerFromStorage ==
  [][ /\ (userCall'.req # userCall.req /\ userCall'.req.by = "authFetch")
           => userCall'.req.authorization = ExpectedAuthorization(storage'[TOKEN_KEY])
      /\ (adminCall'.req # adminCall.req /\ adminCall'.req.by = "adminAuthFetch")
           => adminCall'.req.authorization = ExpectedAuthorization(storage'[ADMIN_TOKEN_KEY])
    ]_vars

\* A user request in flight carries the stored user token while a different
\* admin token is stored too
C1_Witness ==
  /\ userCall.req.by = "authFetch"
  /\ storage[TOKEN_KEY] # Null
  /\ userCall.req.authorization = Bearer(storage[TOKEN_KEY])
  /\ storage[ADMIN_TOKEN_KEY] # Null
  /\ storage[ADMIN_TOKEN_KEY] # storage[TOKEN_KEY]

Wrappers == {"authFetch", "authorizedFetch", "adminAuthFetch"}

\* C2: no request a fetch wrapper (authFetch, authorizedFetch,
\* adminAuthFetch) sends has credentials mode "include".
C2_NoCredentialsInclude ==
  /\ userCall.req.by \in Wrappers => userCall.req.credentials # "include"
  /\ adminCall.req.by \in Wrappers => adminCall.req.credentials # "include"

\* C3: once the /me request of a mounted ProtectedRoute has failed, the token
\* and the cached user are eventually gone from storage and the router is at
\* /login, whether the guard awaited the request or sent it in the background
\* beside a cached user; likewise AdminProtectedRoute with the admin keys and
\* /admin/login.
C3_RejectedTokenCleared ==
  \A ns \in Namespaces :
    (guard[ns].mounted /\ (guard[ns].me = "failed" \/ guard[ns].bg = "failed"))
      ~> (/\ guardToken(ns, storage) = Null
          /\ guardCached(ns, storage) = Null
          /\ location = guardLogin(ns))

\* ProtectedRoute shows its children
RendersChildren == guard["user"].mounted /\ guard["user"].status = "ok"

\* C4: ProtectedRoute renders its children only if a user token was in
\* storage when it mounted; mounted without a token it redirects to /login
\* and sends no request, for as long as that element lives.
C4_ChildrenOnlyWithToken ==
  [][ /\ (~guard["user"].mounted /\ guard'["user"].mounted)
           => IF storage[TOKEN_KEY] = Null
                THEN /\ guard'["user"].status = "no-token"
                     /\ location' = "/login"
                     /\ guard'["user"].req = NoRequest
                ELSE guard'["user"].status = "checking"
      /\ (guard["user"].mounted /\ guard'["user"].mounted /\ guard["user"].status = "no-token")
           => /\ guard'["user"].status = "no-token"
              /\ guard'["user"].req = NoRequest
              /\ guard'["user"].me = guard["user"].me
              /\ guard'["user"].bg = guard["user"].bg
              /\ location' = "/login"
      /\ (RendersChildren' /\ ~RendersChildren)
           => guard["user"].mounted /\ guard["user"].status = "checking"
    ]_vars

\* A guard that mounted without a token, after its effect ran: at /login,
\* nothing sent
C4_Witness ==
  /\ guard["user"].mounted
  /\ guard["user"].status = "no-token"
  /\ guard["user"].pc = "idle"
  /\ guard["user"].me = "none" /\ guard["user"].bg = "none"
  /\ guard["user"].req = NoRequest
  /\ storage[TOKEN_KEY] = Null
  /\ location = "/login"

AdminKeysKept(st1, st2) ==
  st2[ADMIN_TOKEN_KEY] = st1[ADMIN_TOKEN_KEY] /\ st2[ADMIN_USER_KEY] = st1[ADMIN_USER_KEY]
UserKeysKept(st1, st2) ==
  st2[TOKEN_KEY] = st1[TOKEN_KEY] /\ st2[USER_KEY] = st1[USER_KEY]

\* C5: no user-session operation (setToken, setStoredUser, clearAuth, login,
\* signup, logout) changes admin_auth_token or admin_auth_user, and no
\* admin-session operation (setAdminToken, setStoredAdminUser, clearAdminAuth,
\* adminLogin, adminSignup, adminLogout) changes auth_token or auth_user.
C5_SeparateNamespaces ==
  /\ [](/\ \A t \in Tokens \cup {Null} :
              /\ AdminKeysKept(storage, setToken(storage, t))
              /\ UserKeysKept(storage, setAdminToken(storage, t))
         /\ \A u \in Users \cup {Null} :
              /\ AdminKeysKept(storage, setStoredUser(storage, u))
              /\ UserKeysKept(storage, setStoredAdminUser(storage, u))
         /\ AdminKeysKept(storage, clearAuth(storage))
         /\ UserKeysKept(storage, clearAdminAuth(storage)))
  /\ [][UserCalls => AdminKeysKept(storage, storage')]_vars
  /\ [][AdminCalls => UserKeysKept(storage, storage')]_vars

\* Both sessions are stored, with different tokens and different users
C5_Witness ==
  /\ storage[TOKEN_KEY] # Null /\ storage[ADMIN_TOKEN_KEY] # Null
  /\ storage[TOKEN_KEY] # storage[ADMIN_TOKEN_KEY]
  /\ storage[USER_KEY] # Null /\ storage[ADMIN_USER_KEY] # Null
  /\ storage[USER_KEY] # storage[ADMIN_USER_KEY]
  /\ userCall.op = "login" /\ userCall.result = "resolved"
  /\ adminCall.op = "adminLogin" /\ adminCall.result = "resolved"

\* A step of call c that is not on the way to success: the call starts,
\* passes the probe, or settles rejected
NotAccepted(c1, c2) ==
  c2 # c1 /\ c2.result # "resolved" /\ c2.pc # "me" /\ c1.pc # "me"

\* C6: when the backend answers login, signup or adminLogin with a non-OK
\* status the call rejects with an Error, and no step of the call, from its
\* start to the rejection, changes the storage: the stored token and the
\* cached user are what they were before the call.
C6_RejectedCallKeepsStorage ==
  [][ /\ (userCall.op \in {"login", "signup"} /\ userCall.pc = "post"
            /\ userCall'.pc = "idle" /\ userCall'.err = "http")
           => userCall'.result = "rejected" /\ storage' = storage
      /\ (adminCall.op = "adminLogin" /\ adminCall.pc = "post"
            /\ adminCall'.pc = "idle" /\ adminCall'.err = "http")
           => adminCall'.result = "rejected" /\ storage' = storage
      /\ (userCall'.op \in {"login", "signup"} /\ NotAccepted(userCall, userCall'))
           => storage' = storage
      /\ (adminCall'.op = "adminLogin" /\ NotAccepted(adminCall, adminCall'))
           => storage' = storage
    ]_vars

\* login was rejected by the backend while a session was stored, and the
\* session is still there
C6_Witness ==
  /\ userCall.op = "login" /\ userCall.result = "rejected" /\ userCall.err = "http"
  /\ storage[TOKEN_KEY] # Null /\ storage[USER_KEY] # Null

\* A socket that has been torn down
TornDown(s) == ~s.connected /\ s.listeners = {}

\* C7: when a view is torn down or its subscription effect re-runs, the old
\* socket has no listeners and is disconnected, and a push delivered on it
\* afterwards runs no handler and changes nothing of the view's state.
C7_TeardownUnsubscribes ==
  /\ [](\A v \in Views : /\ TornDown(sub[v].old)
                         /\ ~sub[v].mounted => TornDown(sub[v].cur))
  /\ [][(\E v \in Views, e \in PushEvents :
            \E p \in PushPayloads(v, e) : Push(v, "old", e, p))
          => UNCHANGED viewVars]_vars
  /\ [][handled' # handled
          => handled'.sock = "cur" /\ sub[handled'.view].mounted]_vars

\* The Dashboard's effect has re-run (a window other than the initial one is
\* selected), so a torn-down socket exists, and a handler of the new
\* subscription has run since
C7_Witness ==
  /\ sub["Dashboard"].mounted
  /\ dash.activeWindow # "10m"
  /\ sub["Dashboard"].old.win = "10m"
  /\ sub["Dashboard"].cur.win = dash.activeWindow
  /\ handled.view = "Dashboard" /\ handled.sock = "cur"
  /\ Len(dash.refreshes) > 0
  /\ dash.refreshes[Len(dash.refreshes)].win = dash.activeWindow

DashboardEvents == {"metrics_update", "user_event_created", "new_event"}
SixRequests == {"total", "types", "active", "recent", "usersToday", "heatmap"}

\* C8: while the Dashboard is mounted and subscribed, every metrics_update,
\* user_event_created or new_event push starts a refresh requesting total
\* events, event types, active users, recent activity, users-answered-today
\* and the heatmap, and when a refresh completes each value whose request
\* succeeded replaces the one displayed (the others stay).
C8_PushRefreshes ==
  /\ [](sub["Dashboard"].mounted
          => sub["Dashboard"].cur.connected
             /\ DashboardEvents \subseteq sub["Dashboard"].cur.listeners)
  /\ [][\A e \in DashboardEvents :
          (sub["Dashboard"].mounted /\ Push("Dashboard", "cur", e, NoPayload))
            => /\ Len(dash'.refreshes) = Len(dash.refreshes) + 1
               /\ dash'.refreshes[Len(dash'.refreshes)].requests = SixRequests
               /\ handled'.view = "Dashboard" /\ handled'.event = e]_vars
  /\ [][(sub["Dashboard"].mounted /\ sub'["Dashboard"].mounted
            /\ Len(dash'.refreshes) < Len(dash.refreshes))
          => \A m \in Metrics :
               dash'.shown[m] = IF m \in dash'.applied.ok /\ m \in SixRequests
                                  THEN dash'.applied.value ELSE dash.shown[m]]_vars

\* A refresh with one request rejected has completed: the heatmap shows the
\* new value, the total still shows the value of an earlier refresh
C8_Witness ==
  /\ sub["Dashboard"].mounted
  /\ dash.applied.ok = SixRequests \ {"total"}
  /\ dash.applied.value = 2
  /\ dash.shown["heatmap"] = 2
  /\ dash.shown["total"] = 1
  /\ dash.shown["signups"] = 0

\* An environment variable is set: import.meta.env defines it
IsSet(v) == v # Undefined
NonBlank(v) == IsSet(v) /\ trim(v) # EmptyStr

\* C9: getApiBaseUrl returns VITE_BACKEND_URL when it is set; otherwise
\* VITE_API_BASE_URL when that is set; otherwise the empty same-origin base.
C9_ApiBaseOrder ==
  urls.api # Unresolved =>
    urls.api = IF IsSet(env.VITE_BACKEND_URL) THEN env.VITE_BACKEND_URL
               ELSE IF IsSet(env.VITE_API_BASE_URL) THEN env.VITE_API_BASE_URL
               ELSE EmptyStr

\* C10: getSocketUrl returns VITE_SOCKET_URL when it is set and non-blank;
\* otherwise VITE_BACKEND_URL when that is set; otherwise the page's origin.
C10_SocketUrlOrder ==
  urls.socket # Unresolved =>
    urls.socket = IF NonBlank(env.VITE_SOCKET_URL) THEN env.VITE_SOCKET_URL
                  ELSE IF IsSet(env.VITE_BACKEND_URL) THEN env.VITE_BACKEND_URL
                  ELSE Origin

\* C11: once both the optimistic update and the new_answer push of an answer
\* the user submitted have been processed, in either order, the displayed
\* count of the chosen option is one higher than it was at the submission
\* (plus the answers of other users pushed since).
C11_AnswerCountedOnce ==
  (quest.answer # 0 /\ quest.local /\ quest.echoed)
    => quest.counts[quest.answer] = quest.expected[quest.answer]

\* C12: on the Dashboard, once every outstanding request has settled, the
\* active-users series shown is the response to a request for the window
\* that is selected.
C12_ActiveSeriesOfSelectedWindow ==
  (/\ sub["Dashboard"].mounted
   /\ AuInFlight(dash) = 0 /\ dash.loads = <<>> /\ dash.refreshes = <<>>
   /\ dash.activeOf # "none")
    => dash.activeOf = dash.activeWindow

\* C13: the App's total is the number of events the initial load kept plus
\* the number of new_event pushes handled since the mount, whether the
\* pushes came before or after the load completed.
C13_TotalCountsLoadAndPushes ==
  (sub["App"].mounted /\ app.load = "done")
    => app.total = app.loaded + app.pushes

\* C14: the App's events list never holds more than 10 entries, and a
\* new_event is at the head of the list once its handler has run, followed
\* by the entries that were there, the oldest dropped when the list is full.
C14_EventsCappedNewestFirst ==
  /\ [](Len(app.events) <= ListCap)
  /\ [][\A evt \in PushedEvents :
          (sub["App"].mounted /\ Push("App", "cur", "new_event", evt))
            => /\ Head(app'.events) = evt
               /\ Tail(app'.events) =
                    SubSeq(app.events, 1,
                           IF Len(app.events) < ListCap THEN Len(app.events)
                                                        ELSE ListCap - 1)]_vars
  /\ [][(app.load = "pending" /\ app'.load = "done")
          => /\ Len(app'.events) <= ListCap
             /\ \A i \in 1..(Len(app'.events) - 1) :
                  app'.events[i] >= app'.events[i + 1]]_vars

\* The list was full after the load and two pushes have gone to its head
C14_Witness ==
  /\ sub["App"].mounted /\ app.load = "done" /\ app.loaded = ListCap
  /\ app.pushes = 2
  /\ Len(app.events) = ListCap
  /\ app.events[1] = 21 /\ app.events[2] = 20 /\ app.events[3] = 12
  /\ app.events[ListCap] = 5

\* C15: with a token stored and no cached user ProtectedRoute stays in
\* "checking", not rendering its children, until GET /api/auth/me has
\* succeeded; within one mounted element the status only moves from
\* checking to ok or from checking to no-token.
C15_CheckingUntilVerified ==
  /\ []((guard["user"].mounted /\ guard["user"].pc = "awaitMe")
          => guard["user"].status = "checking" /\ ~RendersChildren)
  /\ [][(/\ guard["user"].mounted /\ guard["user"].pc = "effect"
         /\ guard'["user"].pc # "effect"
         /\ guard["user"].status = "checking"
         /\ storage[TOKEN_KEY] # Null /\ storage[USER_KEY] = Null)
          => /\ guard'["user"].status = "checking"
             /\ guard'["user"].pc = "awaitMe"
             /\ guard'["user"].req = authFetch(storage, "/api/auth/me")]_vars
  /\ [][(guard["user"].pc = "awaitMe" /\ guard'["user"].status = "ok")
          => guard'["user"].me = "ok"]_vars
  /\ [][(/\ guard["user"].mounted /\ guard'["user"].mounted
         /\ guard'["user"].status # guard["user"].status)
          => /\ guard["user"].status = "checking"
             /\ guard'["user"].status \in {"ok", "no-token"}]_vars

\* The guard found no cached user, awaited /me, and renders its children
\* with the profile it received
C15_Witness ==
  /\ RendersChildren
  /\ guard["user"].me = "ok" /\ guard["user"].bg = "none"
  /\ storage[TOKEN_KEY] # Null /\ storage[USER_KEY] # Null
  /\ userCall.op = "login" /\ userCall.pc = "idle"

\* C16: in the user namespace a cached user is stored only if a token is
\* stored, whatever the interleaving of login, signup, logout, the guard's
\* verification and its background profile refresh.
C16_CachedUserOnlyWithToken ==
  storage[USER_KEY] # Null => storage[TOKEN_KEY] # Null

\* C17: login sends POST /api/auth/login only when the health probe,
\* GET /api/health, has answered OK; when the probe fails login rejects with
\* the "Cannot connect to backend" error, sends nothing more and leaves the
\* storage as it was.
C17_ProbeBeforeLogin ==
  /\ [][LoginStart => userCall'.req = healthProbe /\ storage' = storage]_vars
  /\ [][(userCall'.req # userCall.req /\ userCall'.req.path = "/api/auth/login")
          => /\ userCall.op = "login" /\ userCall.pc = "health"
             /\ userCall.req = healthProbe
             /\ LoginHealth(TRUE)]_vars
  /\ [][LoginHealth(FALSE)
          => /\ userCall'.pc = "idle" /\ userCall'.result = "rejected"
             /\ userCall'.err = "connect"
             /\ userCall'.req = NoRequest
             /\ storage' = storage]_vars

\* login was rejected at the probe while a session was stored, which is
\* still there
C17_Witness ==
  /\ userCall.op = "login" /\ userCall.result = "rejected"
  /\ userCall.err = "connect" /\ userCall.req = NoRequest
  /\ storage[TOKEN_KEY] # Null /\ storage[USER_KEY] # Null

\* C18: when login resolves, the cached user is the user of the session it
\* just created (the user of the response, or the profile that
\* GET /api/auth/me returned for the new token), never one left from an
\* earlier session.
C18_LoginCachesSessionUser ==
  [][(/\ userCall.op = "login" /\ userCall.pc # "idle"
      /\ userCall'.pc = "idle" /\ userCall'.result = "resolved")
       => getStoredUser(storage') = userCall'.user]_vars

\* C19: logout sends POST /api/auth/logout through authFetch while the token
\* is still stored, so the request carries it; whatever the request's
\* outcome, a failure included, logout ends with auth_token and auth_user
\* removed and resolves (to true).
C19_LogoutAlwaysClears ==
  /\ [][LogoutStart
          => /\ userCall'.req.by = "authFetch"
             /\ userCall'.req.path = "/api/auth/logout"
             /\ userCall'.req.authorization = ExpectedAuthorization(storage[TOKEN_KEY])
             /\ storage' = storage]_vars
  /\ []((userCall.op = "logout" /\ userCall.pc = "post")
          => userCall.req.authorization = ExpectedAuthorization(storage[TOKEN_KEY]))
  /\ [][(userCall.op = "logout" /\ userCall.pc = "post" /\ userCall'.pc = "idle")
          => /\ userCall'.result = "resolved"
             /\ storage'[TOKEN_KEY] = Null /\ storage'[USER_KEY] = Null]_vars
  /\ []((userCall.op = "logout" /\ userCall.pc = "idle")
          => /\ userCall.result = "resolved"
             /\ storage[TOKEN_KEY] = Null /\ storage[USER_KEY] = Null)

\* logout has resolved although its request failed, and the session is gone
C19_Witness ==
  /\ userCall.op = "logout" /\ userCall.pc = "idle"
  /\ userCall.result = "resolved" /\ userCall.err = "network"
  /\ storage[TOKEN_KEY] = Null /\ storage[USER_KEY] = Null

\* The path of the request fetch makes for a URL: what follows the authority
\* of an absolute ("scheme://host/...") or scheme-relative ("//host/...") URL,
\* "/" when nothing does; a relative URL is its own path, resolved against
\* the root.
RequestPath(url) ==
  LET idx == indexOf(url, <<"/", "/">>)
      authority == idx = 0 \/ (idx = 2 /\ url[2] = ":")
      rest == SubSeq(url, idx + 2 + 1, Len(url))
      slash == indexOf(rest, <<"/">>)
  IN  IF authority
        THEN IF slash # -1 THEN SubSeq(rest, slash + 1, Len(rest)) ELSE <<"/">>
      ELSE IF startsWith(url, <<"/">>) THEN url ELSE <<"/">> \o url

\* C20: a request authorizedFetch sends carries the admin token, never the
\* user token, when its path starts with /api/admin, and the user token,
\* never the admin token, otherwise; the same for relative and absolute
\* URLs.  A token that is absent attaches nothing.
C20_TokenByPath ==
  sent.by = "authorizedFetch"
    => sent.authorization =
         IF startsWith(RequestPath(sent.url), <<"/", "api", "/", "admin">>)
           THEN ExpectedAuthorization(storage[ADMIN_TOKEN_KEY])
           ELSE ExpectedAuthorization(storage[TOKEN_KEY])

\* C21: when a load of the Dashboard completes with some of its requests
\* rejected, every metric whose request was fulfilled shows the new value,
\* every metric whose request was rejected keeps the value it showed, the
\* errors hold exactly one entry per rejected request, and the loading
\* indicator is cleared.
C21_PartialLoad ==
  [][\A k \in 1..MaxLoads, ok \in SUBSET loadRequests, value \in DataVersions :
       (sub["Dashboard"].mounted /\ LoadDone(k, ok, value))
         => /\ \A m \in ok : dash'.shown[m] = value
            /\ \A m \in Metrics \ ok : dash'.shown[m] = dash.shown[m]
            /\ dash'.errors = loadRequests \ ok
            /\ dash'.loading = FALSE]_vars

\* A load has completed with two requests rejected: signups and heatmap keep
\* the values of the earlier load and are the two errors, the total shows
\* the new value
C21_Witness ==
  /\ sub["Dashboard"].mounted
  /\ dash.errors = {"signups", "heatmap"} /\ ~dash.loading
  /\ dash.shown["signups"] = 1 /\ dash.shown["heatmap"] = 1
  /\ dash.shown["total"] = 2 /\ dash.shown["recent"] = 2

====
